---- MODULE Spec2Model ----
(***************************************************************************)
(* Model of the stream translation of DifyChatLanguageModel.doStream       *)
(* (src/src/dify-chat-language-model.ts): the TransformStream's transform  *)
(* callback, the reasoning/answer splitter parseContentWithThinking and    *)
(* the per-stream StreamState it mutates.                                  *)
(*                                                                         *)
(* Representation.                                                         *)
(*  - An optional value is a sequence: <<>> is undefined, <<v>> is v.      *)
(*  - A text is a sequence of tokens.  The tokens "<think>", "NL" (the     *)
(*    newline character) and "</think>" are the pieces of the markers; any *)
(*    other token is a run of ordinary characters.  includes, indexOf,     *)
(*    substring and split are computed on the token sequence.              *)
(*  - An upstream event is a record holding exactly the keys the JSON      *)
(*    object holds, so `"k" in obj` is k \in DOMAIN obj and the object     *)
(*    spread {a: x, ...data} is data @@ [a |-> x].                         *)
(*  - A Date built from seconds is the number of milliseconds.             *)
(***************************************************************************)
EXTENDS Integers, Sequences, FiniteSets, TLC

VARIABLES
  state,    \* the StreamState object of doStream
  pre,      \* StreamState as it was before the last chunk was transformed
  events,   \* the chunks transformed so far, in order
  output,   \* output[i]: the parts enqueued while transforming events[i]
  call,     \* one invocation of doGenerate / doStream on a model instance
  closed,   \* None while upstream is open; the parts enqueued at its end after
  other     \* the stream of a second doStream call on the same instance

vars == <<state, pre, events, output, call, closed, other>>

\* Bounds on the number of chunks of one stream, per specification.
MaxEvents == 3

MaxIdEvents == 3

MaxSplitEvents == 4

MaxLedgerEvents == 4

\* Chunks per stream in the two-stream specification
MaxTwoEvents == 2

---------------------------------------------------------------------------
(* Optional values and JavaScript truthiness *)

None == <<>>

Some(v) == <<v>>

Get(obj, k) == IF k \in DOMAIN obj THEN <<obj[k]>> ELSE None

\* `x ? .. : ..` for x: string | undefined
TruthyStr(o) == o # None /\ o[1] # ""

\* `x ? .. : ..` for x: number | undefined
TruthyNum(o) == o # None /\ o[1] # 0

\* `x ? .. : ..` for x a text (token sequence): non-empty
TruthyText(t) == Len(t) > 0

---------------------------------------------------------------------------
(* Texts *)

ThinkStart == <<"<think>", "NL">>

ThinkEnd == <<"NL", "</think>">>

\* Positions (1-based) at which pat occurs in s
Occurrences(s, pat) ==
  {i \in 1..(Len(s) - Len(pat) + 1) : SubSeq(s, i, i + Len(pat) - 1) = pat}

\* String.prototype.includes
Includes(s, pat) == Occurrences(s, pat) # {}

\* String.prototype.indexOf (1-based; 0 when absent)
IndexOf(s, pat) ==
  IF Occurrences(s, pat) = {} THEN 0
  ELSE CHOOSE i \in Occurrences(s, pat) : \A j \in Occurrences(s, pat) : i <= j

\* s.substring(k) with k the 0-based index after the first k tokens
SubstringFrom(s, k) == SubSeq(s, k + 1, Len(s))

\* String.prototype.split with a non-empty separator
RECURSIVE Split(_, _)
Split(s, sep) ==
  IF ~Includes(s, sep) THEN <<s>>
  ELSE LET i == IndexOf(s, sep)
       IN <<SubSeq(s, 1, i - 1)>> \o Split(SubstringFrom(s, i - 1 + Len(sep)), sep)

---------------------------------------------------------------------------
(* Stream parts *)

ReasoningStart(id) == [type |-> "reasoning-start", id |-> id]

ReasoningDelta(id, delta) == [type |-> "reasoning-delta", id |-> id, delta |-> delta]

ReasoningEnd(id) == [type |-> "reasoning-end", id |-> id]

TextStart == [type |-> "text-start", id |-> "answer"]

TextDelta(delta) == [type |-> "text-delta", id |-> "answer", delta |-> delta]

TextEnd == [type |-> "text-end", id |-> "answer"]

ErrorPart(err) == [type |-> "error", error |-> err]

ResponseMetadata(id, timestamp) ==
  [type |-> "response-metadata", id |-> id, timestamp |-> timestamp]

RawPart(rawValue) == [type |-> "raw", rawValue |-> rawValue]

FinishPart(usage, metadata) ==
  [type |-> "finish", finishReason |-> "stop", usage |-> usage,
   providerMetadata |-> [difyWorkflowData |-> metadata]]

\* new Date(seconds * 1000)
DateOf(seconds) == seconds * 1000

---------------------------------------------------------------------------
(* StreamState *)

InitialState ==
  [conversationId |-> None, messageId |-> None, taskId |-> None,
   isInThinking |-> FALSE, reasoningId |-> 0,
   workflowId |-> None, workflowRunId |-> None,
   workflowStartedAt |-> None, workflowFinishedAt |-> None,
   nodes |-> <<>>,
   isActiveText |-> FALSE, isActiveReasoning |-> FALSE,
   generated |-> 0]

\* this.generateId(): the k-th call returns the identifier k (0 is the empty
\* string reasoningId starts with); `generated` counts the calls.
GenerateId(st) == st.generated + 1

---------------------------------------------------------------------------
(* The reasoning/answer splitter *)

\* A begin-marker branch that rescans the remainder for the end-marker
ThinkingStartBranchRescanning(newContent, st) ==
  LET id == GenerateId(st)
      contentAfterThink == SubstringFrom(newContent,
                             IndexOf(newContent, ThinkStart) - 1 + Len(ThinkStart))
      closes == Includes(contentAfterThink, ThinkEnd)
      reasoningPart == IF closes
                       THEN SubSeq(contentAfterThink, 1,
                                   IndexOf(contentAfterThink, ThinkEnd) - 1)
                       ELSE contentAfterThink
  IN [state |-> [st EXCEPT !.isInThinking = ~closes, !.reasoningId = id,
                           !.isActiveReasoning = ~closes, !.generated = id],
      parts |-> <<ReasoningStart(id)>> \o
                (IF TruthyText(reasoningPart)
                 THEN <<ReasoningDelta(id, reasoningPart)>> ELSE <<>>) \o
                (IF closes THEN <<ReasoningEnd(id)>> ELSE <<>>)]

\* Branch 1: the begin-marker in a fragment arriving outside a reasoning block
ThinkingStartBranch(newContent, st) ==
  LET id == GenerateId(st)
      st1 == [st EXCEPT !.isInThinking = TRUE, !.reasoningId = id,
                        !.isActiveReasoning = TRUE, !.generated = id]
      thinkStartIndex == IndexOf(newContent, ThinkStart) - 1
      contentAfterThink == SubstringFrom(newContent, thinkStartIndex + Len(ThinkStart))
  IN [state |-> st1,
      parts |-> <<ReasoningStart(id)>> \o
                (IF TruthyText(contentAfterThink)
                 THEN <<ReasoningDelta(id, contentAfterThink)>> ELSE <<>>)]

\* Branch 2a: inside a reasoning block, the fragment holds the end-marker
ThinkingEndBranch(newContent, st) ==
  LET parts == Split(newContent, ThinkEnd)
      reasoningPart == parts[1]
      textPart == IF TruthyText(parts[2]) THEN parts[2] ELSE <<>>
      st1 == [st EXCEPT !.isInThinking = FALSE, !.isActiveReasoning = FALSE]
  IN [state |-> IF TruthyText(textPart) THEN [st1 EXCEPT !.isActiveText = TRUE] ELSE st1,
      parts |-> (IF TruthyText(reasoningPart)
                 THEN <<ReasoningDelta(st.reasoningId, reasoningPart)>> ELSE <<>>)
                \o <<ReasoningEnd(st.reasoningId)>>
                \o (IF TruthyText(textPart)
                    THEN <<TextStart, TextDelta(textPart)>> ELSE <<>>)]

\* Branch 2b: inside a reasoning block, no end-marker in the fragment
StillThinkingBranch(newContent, st) ==
  [state |-> st, parts |-> <<ReasoningDelta(st.reasoningId, newContent)>>]

\* A regular-text branch that marks the answer channel open without
\* announcing it
RegularTextBranchWithoutStart(newContent, st) ==
  [state |-> [st EXCEPT !.isActiveText = TRUE],
   parts |-> <<TextDelta(newContent)>>]

\* Branch 3: regular text
RegularTextBranch(newContent, st) ==
  [state |-> [st EXCEPT !.isActiveText = TRUE],
   parts |-> (IF ~st.isActiveText THEN <<TextStart>> ELSE <<>>)
             \o <<TextDelta(newContent)>>]

\* A splitter that takes the closing tag alone, without the line break
\* before it, for the end-marker
parseContentWithThinkingMatchingTag(newContent, st) ==
  IF Includes(newContent, ThinkStart) /\ ~st.isInThinking
  THEN ThinkingStartBranch(newContent, st)
  ELSE IF st.isInThinking
       THEN IF Includes(newContent, <<"</think>">>)
            THEN [state |-> [st EXCEPT !.isInThinking = FALSE,
                                       !.isActiveReasoning = FALSE],
                  parts |-> <<ReasoningEnd(st.reasoningId)>>]
            ELSE StillThinkingBranch(newContent, st)
       ELSE RegularTextBranch(newContent, st)

parseContentWithThinking(newContent, st) ==
  IF Includes(newContent, ThinkStart) /\ ~st.isInThinking
  THEN ThinkingStartBranch(newContent, st)
  ELSE IF st.isInThinking
       THEN IF Includes(newContent, ThinkEnd)
            THEN ThinkingEndBranch(newContent, st)
            ELSE StillThinkingBranch(newContent, st)
       ELSE RegularTextBranch(newContent, st)

---------------------------------------------------------------------------
(* The transform callback, one operator per case of its switch.  Each takes *)
(* the validated event `data` and the StreamState `st` (identifiers already *)
(* captured) and gives the new StreamState and the parts enqueued.          *)

\* {k: v, ...data}: the keys of data win over the keys written before it
Spread(base, data) == data @@ base

\* `data.data && typeof data.data === "object" && k1 in data.data && ...`
DataHas(data, keys) == "data" \in DOMAIN data /\ keys \subseteq DOMAIN data.data

\* state.nodes.get(nodeId): the position of the record in the Map, 0 if none
NodeIndex(nodes, nodeId) ==
  IF \E i \in 1..Len(nodes) : nodes[i].nodeId = nodeId
  THEN CHOOSE i \in 1..Len(nodes) : nodes[i].nodeId = nodeId
  ELSE 0

\* state.nodes.set(nodeId, nodeInfo): a Map keeps the position of a key it has
NodesSet(nodes, nodeInfo) ==
  IF NodeIndex(nodes, nodeInfo.nodeId) = 0
  THEN Append(nodes, nodeInfo)
  ELSE [nodes EXCEPT ![NodeIndex(nodes, nodeInfo.nodeId)] = nodeInfo]

\* `a && b ? b - a : undefined` on two optional numbers
DurationOf(startedAt, finishedAt) ==
  IF TruthyNum(startedAt) /\ TruthyNum(finishedAt)
  THEN Some(finishedAt[1] - startedAt[1])
  ELSE None

\* The execution report of the workflow_finished case
executionReport(st) ==
  IF TruthyStr(st.workflowId)
  THEN Some([workflowId |-> st.workflowId[1],
             workflowRunId |-> st.workflowRunId,
             startedAt |-> st.workflowStartedAt,
             finishedAt |-> st.workflowFinishedAt,
             duration |-> DurationOf(st.workflowStartedAt, st.workflowFinishedAt),
             nodes |-> [i \in 1..Len(st.nodes) |->
                          [nodeId |-> st.nodes[i].nodeId,
                           nodeType |-> st.nodes[i].nodeType,
                           startedAt |-> st.nodes[i].startedAt,
                           finishedAt |-> st.nodes[i].finishedAt,
                           duration |-> DurationOf(st.nodes[i].startedAt,
                                                   st.nodes[i].finishedAt)]]])
  ELSE None

\* A message_end report that drops the node records
executionReportWithoutNodes(st) ==
  IF TruthyStr(st.workflowId)
  THEN Some([workflowId |-> st.workflowId[1],
             workflowRunId |-> st.workflowRunId,
             startedAt |-> st.workflowStartedAt,
             finishedAt |-> st.workflowFinishedAt,
             duration |-> DurationOf(st.workflowStartedAt, st.workflowFinishedAt),
             nodes |-> <<>>])
  ELSE None

\* The execution report of the message_end case: a second copy of the code
\* of the workflow_finished case
executionReportAtMessageEnd(st) ==
  IF TruthyStr(st.workflowId)
  THEN Some([workflowId |-> st.workflowId[1],
             workflowRunId |-> st.workflowRunId,
             startedAt |-> st.workflowStartedAt,
             finishedAt |-> st.workflowFinishedAt,
             duration |-> DurationOf(st.workflowStartedAt, st.workflowFinishedAt),
             nodes |-> [i \in 1..Len(st.nodes) |->
                          [nodeId |-> st.nodes[i].nodeId,
                           nodeType |-> st.nodes[i].nodeType,
                           startedAt |-> st.nodes[i].startedAt,
                           finishedAt |-> st.nodes[i].finishedAt,
                           duration |-> DurationOf(st.nodes[i].startedAt,
                                                   st.nodes[i].finishedAt)]]])
  ELSE None

\* providerMetadata.difyWorkflowData of a finish part
FinishMetadata(st, report) ==
  [conversationId |-> st.conversationId,
   messageId |-> st.messageId,
   taskId |-> st.taskId,
   workflowExecution |-> report]

\* A failed chunk that also leaves the reasoning block
FailedChunkCaseLeavesThinking(chunk, st) ==
  [state |-> [st EXCEPT !.isInThinking = FALSE],
   parts |-> <<ErrorPart(chunk.error)>>]

\* if (!chunk.success) { enqueue error; return }
FailedChunkCase(chunk, st) ==
  [state |-> st, parts |-> <<ErrorPart(chunk.error)>>]

\* An identifier capture that tests for presence instead of truthiness
CaptureIdWhenPresent(current, data, key) ==
  IF key \in DOMAIN data THEN Get(data, key) ELSE current

\* if (data.x_id) state.xId = data.x_id
CaptureId(current, data, key) ==
  IF TruthyStr(Get(data, key)) THEN Get(data, key) ELSE current

CaptureIds(data, st) ==
  [st EXCEPT !.conversationId = CaptureId(@, data, "conversation_id"),
             !.messageId = CaptureId(@, data, "message_id"),
             !.taskId = CaptureId(@, data, "task_id")]

\* A workflow_started that also clears the finish timestamp of the last run
WorkflowStartedStateClearingFinish(data, st) ==
  IF DataHas(data, {"workflow_id", "created_at"})
  THEN [st EXCEPT !.workflowId = Some(data.data.workflow_id),
                  !.workflowRunId = Get(data, "workflow_run_id"),
                  !.workflowStartedAt = Some(data.data.created_at),
                  !.workflowFinishedAt = None]
  ELSE st

\* if ("workflow_id" in data.data && "created_at" in data.data) state.x = ..
WorkflowStartedState(data, st) ==
  IF DataHas(data, {"workflow_id", "created_at"})
  THEN [st EXCEPT !.workflowId = Some(data.data.workflow_id),
                  !.workflowRunId = Get(data, "workflow_run_id"),
                  !.workflowStartedAt = Some(data.data.created_at)]
  ELSE st

WorkflowStartedCase(data, st) ==
  [state |-> WorkflowStartedState(data, st),
   parts |-> (IF DataHas(data, {"created_at"})
              THEN <<ResponseMetadata(Get(data, "workflow_run_id"),
                                      Some(DateOf(data.data.created_at)))>>
              ELSE <<>>)
             \o <<RawPart(Spread([difyEvent |-> "workflow_started"], data))>>]

\* A workflow_finished that also marks the answer channel closed
WorkflowFinishedStateClosingText(data, st) ==
  IF DataHas(data, {"finished_at"})
  THEN [st EXCEPT !.workflowFinishedAt = Some(data.data.finished_at),
                  !.isActiveText = FALSE]
  ELSE [st EXCEPT !.isActiveText = FALSE]

\* if ("finished_at" in data.data) state.workflowFinishedAt = ..
WorkflowFinishedState(data, st) ==
  IF DataHas(data, {"finished_at"})
  THEN [st EXCEPT !.workflowFinishedAt = Some(data.data.finished_at)]
  ELSE st

\* A usage that reports the total as input tokens too
WorkflowFinishedUsageCountingInput(totalTokens) ==
  [inputTokens |-> Some(totalTokens),
   outputTokens |-> Some(totalTokens),
   totalTokens |-> Some(totalTokens)]

\* usage: {inputTokens: 0, outputTokens: totalTokens, totalTokens: totalTokens}
WorkflowFinishedUsage(totalTokens) ==
  [inputTokens |-> Some(0),
   outputTokens |-> Some(totalTokens),
   totalTokens |-> Some(totalTokens)]

WorkflowFinishedCase(data, st) ==
  LET st1 == WorkflowFinishedState(data, st)
      duration == IF DataHas(data, {"elapsed_time"})
                  THEN Some(data.data.elapsed_time) ELSE None
      totalTokens == IF DataHas(data, {"total_tokens"})
                     THEN data.data.total_tokens ELSE 0
  IN [state |-> st1,
      parts |-> (IF DataHas(data, {"finished_at"})
                 THEN <<ResponseMetadata(Get(data, "workflow_run_id"),
                                         Some(DateOf(data.data.finished_at)))>>
                 ELSE <<>>)
                \o <<RawPart(Spread([difyEvent |-> "workflow_finished",
                                     duration |-> duration], data))>>
                \o <<FinishPart(WorkflowFinishedUsage(totalTokens),
                                FinishMetadata(st1, executionReport(st1)))>>]

NodeStartedCase(data, st) ==
  LET recorded == DataHas(data, {"node_id", "node_type"})
                  /\ TruthyNum(Get(data, "created_at"))
      nodeInfo == [nodeId |-> data.data.node_id,
                   nodeType |-> data.data.node_type,
                   startedAt |-> Some(data.created_at),
                   finishedAt |-> None]
  IN [state |-> IF recorded
                THEN [st EXCEPT !.nodes = NodesSet(@, nodeInfo)]
                ELSE st,
      parts |-> (IF recorded
                 THEN <<ResponseMetadata(Some(<<"node-", data.data.node_id>>),
                                         Some(DateOf(data.created_at)))>>
                 ELSE <<>>)
                \o <<RawPart(Spread([difyEvent |-> "node_started"], data))>>]

\* A node_finished that records a node it has not seen start
SetFinishedAtOrInsert(nodes, nodeId, createdAt) ==
  IF NodeIndex(nodes, nodeId) # 0
  THEN [nodes EXCEPT ![NodeIndex(nodes, nodeId)].finishedAt = Some(createdAt)]
  ELSE Append(nodes, [nodeId |-> nodeId, nodeType |-> "unknown",
                      startedAt |-> None, finishedAt |-> Some(createdAt)])

\* existingNode = state.nodes.get(nodeId);
\* if (existingNode) existingNode.finishedAt = data.created_at
SetFinishedAt(nodes, nodeId, createdAt) ==
  IF NodeIndex(nodes, nodeId) # 0
  THEN [nodes EXCEPT ![NodeIndex(nodes, nodeId)].finishedAt = Some(createdAt)]
  ELSE nodes

NodeFinishedCase(data, st) ==
  LET looked == DataHas(data, {"node_id"}) /\ TruthyNum(Get(data, "created_at"))
      idx == IF looked THEN NodeIndex(st.nodes, data.data.node_id) ELSE 0
      duration == IF idx # 0 /\ TruthyNum(st.nodes[idx].startedAt)
                     /\ TruthyNum(Get(data, "created_at"))
                  THEN Some(data.created_at - st.nodes[idx].startedAt[1])
                  ELSE None
  IN [state |-> IF looked
                THEN [st EXCEPT !.nodes =
                        SetFinishedAt(@, data.data.node_id, data.created_at)]
                ELSE st,
      parts |-> (IF looked
                 THEN <<ResponseMetadata(Some(<<"node-", data.data.node_id>>),
                                         Some(DateOf(data.created_at)))>>
                 ELSE <<>>)
                \o <<RawPart(Spread([difyEvent |-> "node_finished",
                                     duration |-> duration], data))>>]

AgentThoughtCase(data, st) ==
  [state |-> st,
   parts |-> (IF "id" \in DOMAIN data /\ TruthyNum(Get(data, "created_at"))
              THEN <<ResponseMetadata(Some(data.id), Some(DateOf(data.created_at)))>>
              ELSE <<>>)
             \o <<RawPart(Spread([difyEvent |-> "agent_thought"], data))>>]

\* case "message": case "agent_message":
MessageCase(data, st) ==
  IF "answer" \in DOMAIN data
  THEN LET r == parseContentWithThinking(data.answer, st)
       IN [state |-> r.state,
           parts |-> r.parts \o
                     (IF data.event = "agent_message" /\ "id" \in DOMAIN data
                      THEN <<ResponseMetadata(Some(data.id),
                               IF TruthyNum(Get(data, "created_at"))
                               THEN Some(DateOf(data.created_at)) ELSE None)>>
                      ELSE <<>>)]
  ELSE [state |-> st, parts |-> <<>>]

\* A message_end that emits text-end but leaves the flag set
EndActiveTextKeepsFlag(st) ==
  [state |-> st,
   parts |-> IF st.isActiveText THEN <<TextEnd>> ELSE <<>>]

\* if (state.isActiveText) { enqueue text-end; state.isActiveText = false }
EndActiveText(st) ==
  [state |-> [st EXCEPT !.isActiveText = FALSE],
   parts |-> IF st.isActiveText THEN <<TextEnd>> ELSE <<>>]

\* A usage that prefers the nested usage object over data.total_tokens
MessageEndUsagePreferringNested(data) ==
  LET usage == IF "metadata" \in DOMAIN data /\ "usage" \in DOMAIN data.metadata
               THEN Some(data.metadata.usage) ELSE None
      dataTokens == IF DataHas(data, {"total_tokens"})
                    THEN Some(data.data.total_tokens) ELSE None
  IN [inputTokens |-> IF usage # None THEN Get(usage[1], "prompt_tokens") ELSE None,
      outputTokens |-> IF usage # None THEN Some(0) ELSE dataTokens,
      totalTokens |-> IF usage # None THEN Get(usage[1], "total_tokens")
                      ELSE dataTokens]

\* The usage of message_end's finish part: data.total_tokens before
\* metadata.usage, and 0 output tokens without data.total_tokens
MessageEndUsage(data) ==
  LET usage == IF "metadata" \in DOMAIN data /\ "usage" \in DOMAIN data.metadata
               THEN Some(data.metadata.usage) ELSE None
      dataTokens == IF DataHas(data, {"total_tokens"})
                    THEN Some(data.data.total_tokens) ELSE None
      outputTokens == IF dataTokens # None THEN dataTokens ELSE Some(0)
      totalTokens == IF dataTokens # None THEN dataTokens
                     ELSE IF usage # None THEN Get(usage[1], "total_tokens") ELSE None
      inputTokens == IF usage # None THEN Get(usage[1], "prompt_tokens") ELSE None
  IN [inputTokens |-> inputTokens,
      outputTokens |-> outputTokens,
      totalTokens |-> totalTokens]

\* A message_end that also closes a reasoning block left open
MessageEndCaseClosingReasoning(data, st) ==
  LET st1 == [EndActiveText(st).state EXCEPT !.isInThinking = FALSE,
                                             !.isActiveReasoning = FALSE]
  IN [state |-> st1,
      parts |-> EndActiveText(st).parts
                \o (IF st.isInThinking THEN <<ReasoningEnd(st.reasoningId)>> ELSE <<>>)
                \o <<FinishPart(MessageEndUsage(data),
                                FinishMetadata(st1, executionReportAtMessageEnd(st1)))>>]

MessageEndCase(data, st) ==
  LET st1 == EndActiveText(st).state
  IN [state |-> st1,
      parts |-> EndActiveText(st).parts
                \o <<FinishPart(MessageEndUsage(data),
                                FinishMetadata(st1, executionReportAtMessageEnd(st1)))>>]

DefaultCase(data, st) ==
  [state |-> st,
   parts |-> <<RawPart(Spread([difyEvent |-> data.event], data))>>]

\* switch (data.event)
Dispatch(data, st) ==
  CASE data.event = "workflow_started" -> WorkflowStartedCase(data, st)
    [] data.event = "workflow_finished" -> WorkflowFinishedCase(data, st)
    [] data.event = "node_started" -> NodeStartedCase(data, st)
    [] data.event = "node_finished" -> NodeFinishedCase(data, st)
    [] data.event = "agent_thought" -> AgentThoughtCase(data, st)
    [] data.event \in {"message", "agent_message"} -> MessageCase(data, st)
    [] data.event = "message_end" -> MessageEndCase(data, st)
    [] OTHER -> DefaultCase(data, st)

\* transform(chunk, controller)
Transform(chunk, st) ==
  IF ~chunk.success
  THEN FailedChunkCase(chunk, st)
  ELSE Dispatch(chunk.value, CaptureIds(chunk.value, st))

\* An end of stream that closes the open channels and fabricates a finish
FlushPartsClosingChannels(st) ==
  (IF st.isActiveText THEN <<TextEnd>> ELSE <<>>)
  \o (IF st.isInThinking THEN <<ReasoningEnd(st.reasoningId)>> ELSE <<>>)
  \o <<FinishPart([inputTokens |-> None, outputTokens |-> None,
                   totalTokens |-> None],
                  FinishMetadata(st, None))>>

\* new TransformStream({ transform }): without a flush member nothing is
\* enqueued when upstream closes or is aborted
FlushParts(st) == <<>>

\* const state = {...} of every doStream call: a fresh StreamState, nothing
\* transformed yet
NewStream == [state |-> InitialState, events |-> <<>>, output |-> <<>>]

\* A transform working on a StreamState kept on the model instance, which
\* the other call writes too
TransformInSharedState(chunk, mine, theirs) ==
  Transform(chunk, [theirs EXCEPT !.generated =
                      IF mine.generated > theirs.generated
                      THEN mine.generated ELSE theirs.generated])

\* transform of one of two doStream calls on an instance: it closes over
\* the StreamState `mine` of its own call; of what the calls share, only
\* this.generateId has state, so an identifier handed to the other call
\* (counted in theirs.generated) is not handed out again
TransformIn(chunk, mine, theirs) ==
  Transform(chunk, [mine EXCEPT !.generated =
                      IF mine.generated > theirs.generated
                      THEN mine.generated ELSE theirs.generated])

---------------------------------------------------------------------------
(* Upstream chunks: ParseResult<DifyStreamEvent>.  Every object with a      *)
(* string `event` and string identifiers validates (the union falls back   *)
(* to difyStreamEventBase), with unknown keys kept (passthrough).           *)

Valid(value) == [success |-> TRUE, value |-> value]

Failed(err) == [success |-> FALSE, error |-> err]

\* The optional correlation fields of difyStreamEventBase
NoIds == [k \in {} |-> ""]

IdsA == [conversation_id |-> "c1", message_id |-> "m1", task_id |-> "t1"]

IdsB == [conversation_id |-> "c2", message_id |-> "m2", task_id |-> "t2"]

IdsEmpty == [conversation_id |-> "", message_id |-> "", task_id |-> ""]

IdsPartial == [conversation_id |-> "c2", task_id |-> ""]

WorkflowStartedEvent(createdAt) ==
  [event |-> "workflow_started", workflow_run_id |-> "run1",
   data |-> [id |-> "run1", workflow_id |-> "wf1", created_at |-> createdAt]]

\* A workflow_started whose data holds no created_at: not a
\* workflowStartedSchema event, it validates as a difyStreamEventBase
WorkflowStartedEventNoCreatedAt ==
  [event |-> "workflow_started", workflow_run_id |-> "run1",
   data |-> [id |-> "run1", workflow_id |-> "wf1"]]

\* A workflow_started with the empty string as workflow id
WorkflowStartedEventEmptyId ==
  [event |-> "workflow_started", workflow_run_id |-> "run1",
   data |-> [id |-> "run1", workflow_id |-> "", created_at |-> 10]]

WorkflowFinishedEvent(finishedAt) ==
  [event |-> "workflow_finished", workflow_run_id |-> "run1",
   data |-> [id |-> "run1", workflow_id |-> "wf1", total_tokens |-> 7,
             elapsed_time |-> 5, finished_at |-> finishedAt]]

\* node_started / node_finished without a top-level created_at (it is optional)
NodeEvent(kind, nodeId) ==
  [event |-> kind, workflow_run_id |-> "run1",
   data |-> [id |-> "x1", node_id |-> nodeId, node_type |-> "llm", created_at |-> 11]]

\* ... and with one
NodeEventAt(kind, nodeId, createdAt) ==
  NodeEvent(kind, nodeId) @@ [created_at |-> createdAt]

AgentThoughtEvent ==
  [event |-> "agent_thought", id |-> "th1", created_at |-> 12, thought |-> "hm"]

MessageEvent(answer) == [event |-> "message", answer |-> answer]

AgentMessageEvent(answer) ==
  [event |-> "agent_message", id |-> "am1", answer |-> answer]

MessageEndEvent ==
  [event |-> "message_end", id |-> "m1",
   metadata |-> [usage |-> [prompt_tokens |-> 3, completion_tokens |-> 4,
                            total_tokens |-> 7]]]

\* A message_end that carries a data payload with a total token count
MessageEndEventWithDataTokens ==
  MessageEndEvent @@ [data |-> [total_tokens |-> 9]]

\* Answer fragments
Fragments ==
  { <<"foo">>,
    ThinkStart,
    ThinkStart \o <<"foo">>,
    <<"pre">> \o ThinkStart \o <<"foo">>,
    ThinkEnd,
    <<"bar">> \o ThinkEnd \o <<"baz">>,
    ThinkStart \o <<"foo">> \o ThinkEnd \o <<"baz">>,
    <<"bar">> \o ThinkEnd \o <<"baz">> \o ThinkEnd \o <<"qux">>,
    <<"<think>">>,
    <<"NL", "foo">>,
    <<"bar", "NL">>,
    <<"</think>", "baz">> }

\* Chunks of the general specification: every kind of chunk
Chunks ==
  { Failed("json-parse-error"),
    Failed("type-validation-error"),
    Valid(WorkflowStartedEvent(10)),
    Valid(WorkflowFinishedEvent(15)),
    Valid(NodeEventAt("node_started", "n1", 11)),
    Valid(NodeEventAt("node_finished", "n1", 13)),
    Valid(AgentThoughtEvent),
    Valid(MessageEvent(<<"foo">>) @@ IdsA),
    Valid(MessageEvent(ThinkStart \o <<"foo">>)),
    Valid(MessageEvent(<<"bar">> \o ThinkEnd \o <<"baz">>)),
    Valid(AgentMessageEvent(<<>>)),
    Valid(MessageEndEvent @@ IdsA),
    Valid(MessageEndEventWithDataTokens),
    Valid([event |-> "ping"]),
    Valid([event |-> "tts_message", audio |-> "UklGR"]),
    Valid([event |-> "foo_bar", extra |-> "x"] @@ IdsB),
    Valid([event |-> "foo_bar", difyEvent |-> "other"]) }

\* Chunks of the identifier specification: several kinds, each with every
\* combination of correlation fields
IdChunks ==
  { Valid(e @@ ids) :
      e \in { [event |-> "ping"], MessageEvent(<<"foo">>),
              WorkflowFinishedEvent(15), MessageEndEvent },
      ids \in { NoIds, IdsA, IdsB, IdsEmpty, IdsPartial } }

\* Chunks of the splitter specification
SplitChunks ==
  { Valid(MessageEvent(f)) : f \in Fragments }
  \cup { Valid(AgentMessageEvent(<<>>)), Valid(MessageEndEvent),
         Valid(WorkflowFinishedEvent(15)) }

\* Chunks of the two-stream specification: reasoning, answer, identifiers
\* and ledger
TwoChunks ==
  { Valid(MessageEvent(ThinkStart \o <<"foo">>)),
    Valid(MessageEvent(<<"bar">> \o ThinkEnd \o <<"baz">>)),
    Valid(MessageEvent(<<"foo">>) @@ IdsA),
    Valid(WorkflowStartedEvent(10)),
    Valid(NodeEventAt("node_started", "n1", 11)),
    Valid(WorkflowFinishedEvent(15)),
    Valid(MessageEndEvent @@ IdsB) }

\* Chunks of the ledger specification
LedgerChunks ==
  { Valid(WorkflowStartedEvent(10)),
    Valid(WorkflowStartedEvent(0)),
    Valid(WorkflowStartedEventNoCreatedAt),
    Valid(WorkflowStartedEventEmptyId),
    Valid(WorkflowFinishedEvent(15)),
    Valid(NodeEvent("node_started", "n1")),
    Valid(NodeEventAt("node_started", "n1", 0)),
    Valid(NodeEventAt("node_started", "n1", 11)),
    Valid(NodeEventAt("node_started", "n2", 12)),
    Valid(NodeEvent("node_finished", "n1")),
    Valid(NodeEventAt("node_finished", "n1", 13)),
    Valid(NodeEventAt("node_finished", "n2", 14)),
    Valid(MessageEndEvent) }

---------------------------------------------------------------------------
(* Building the request: the constructor and getRequestBody.               *)
(*  - A message content is [string |-> s] or [array |-> <<part, ...>>];    *)
(*    a part is a record, a text part [type |-> "text", text |-> s].       *)
(*  - The query is the sequence of the pieces that join(" ") joins.        *)
(*  - options.headers is optional; a headers object is a record.           *)

\* A constructor that sets no default response mode
ConstructorWithoutDefault(settings) == settings

\* constructor: if (!this.settings.responseMode) responseMode = "streaming"
Constructor(settings) ==
  IF ~TruthyStr(settings.responseMode)
  THEN [settings EXCEPT !.responseMode = Some("streaming")]
  ELSE settings

chatMessagesEndpoint == "https://api.dify.ai/v1/chat-messages"

APICallError(message, requestBodyValues) ==
  [name |-> "APICallError", message |-> message, url |-> chatMessagesEndpoint,
   requestBodyValues |-> requestBodyValues]

\* const messages = options.prompt || (options as any).messages
MessagesOf(options) ==
  IF "prompt" \in DOMAIN options THEN Some(options.prompt) ELSE Get(options, "messages")

\* if (!messages || !messages.length) throw
NoMessagesError(options) ==
  IF MessagesOf(options) = None \/ Len(MessagesOf(options)[1]) = 0
  THEN Some(APICallError("No messages provided", options))
  ELSE None

\* A role test that rejects only an assistant message
RoleErrorForAssistantOnly(latestMessage) ==
  IF latestMessage.role = "assistant"
  THEN Some(APICallError("The last message must be a user message",
                         [latestMessageRole |-> latestMessage.role]))
  ELSE None

\* if (latestMessage.role !== "user") throw
RoleError(latestMessage) ==
  IF latestMessage.role # "user"
  THEN Some(APICallError("The last message must be a user message",
                         [latestMessageRole |-> latestMessage.role]))
  ELSE None

\* An attachment test that looks at the first part only
hasAttachmentsInFirstPart(latestMessage) ==
  /\ "array" \in DOMAIN latestMessage.content
  /\ latestMessage.content.array # <<>>
  /\ "type" \in DOMAIN latestMessage.content.array[1]
  /\ latestMessage.content.array[1].type = "file"

\* Array.isArray(content) && content.some(part => ... part.type === "file")
hasAttachments(latestMessage) ==
  /\ "array" \in DOMAIN latestMessage.content
  /\ \E i \in 1..Len(latestMessage.content.array) :
       /\ "type" \in DOMAIN latestMessage.content.array[i]
       /\ latestMessage.content.array[i].type = "file"

\* if (hasAttachments) throw
AttachmentsError(latestMessage) ==
  IF hasAttachments(latestMessage)
  THEN Some(APICallError("Dify provider does not currently support file attachments",
                         [hasAttachments |-> TRUE]))
  ELSE None

\* The text a part contributes to the query
PartText(part) ==
  IF "string" \in DOMAIN part THEN part.string
  ELSE IF "type" \in DOMAIN part /\ part.type = "text" /\ "text" \in DOMAIN part
       THEN part.text
       ELSE ""

\* The query: content.map(..).filter(Boolean).join(" "), or the string content
QueryOf(content) ==
  IF "string" \in DOMAIN content
  THEN IF content.string = "" THEN <<>> ELSE <<content.string>>
  ELSE SelectSeq([i \in 1..Len(content.array) |-> PartText(content.array[i])],
                 LAMBDA t : t # "")

\* {}
EmptyHeaders == [k \in {} |-> ""]

\* options.headers?.[name]
HeaderOf(options, name) ==
  IF options.headers = None THEN None ELSE Get(options.headers[1], name)

\* A destructuring that strips user-id only
cleanHeadersKeepingChatId(options) ==
  IF options.headers = None THEN EmptyHeaders
  ELSE [k \in DOMAIN options.headers[1] \ {"user-id"} |-> options.headers[1][k]]

\* const {"chat-id": _, "user-id": __, ...cleanHeaders} = options.headers || {}
cleanHeaders(options) ==
  IF options.headers = None THEN EmptyHeaders
  ELSE [k \in DOMAIN options.headers[1] \ {"chat-id", "user-id"} |->
          options.headers[1][k]]

UserIdPlaceholder == "you_should_pass_user-id"

\* getRequestBody(options): what it throws or returns, and the options
\* object as it leaves it (options.headers = cleanHeaders)
getRequestBody(options, settings) ==
  IF NoMessagesError(options) # None
  THEN [threw |-> TRUE, error |-> NoMessagesError(options)[1], options |-> options]
  ELSE LET messages == MessagesOf(options)[1]
           latestMessage == messages[Len(messages)]
       IN IF RoleError(latestMessage) # None
          THEN [threw |-> TRUE, error |-> RoleError(latestMessage)[1],
                options |-> options]
          ELSE IF AttachmentsError(latestMessage) # None
          THEN [threw |-> TRUE, error |-> AttachmentsError(latestMessage)[1],
                options |-> options]
          ELSE [threw |-> FALSE,
                body |-> [inputs |-> IF settings.inputs # None
                                     THEN settings.inputs[1] ELSE EmptyHeaders,
                          query |-> QueryOf(latestMessage.content),
                          response_mode |-> settings.responseMode,
                          conversation_id |-> HeaderOf(options, "chat-id"),
                          user |-> IF HeaderOf(options, "user-id") # None
                                   THEN HeaderOf(options, "user-id")[1]
                                   ELSE UserIdPlaceholder],
                options |-> [options EXCEPT !.headers = Some(cleanHeaders(options))]]

\* this.config.headers(): the headers the provider is configured with
ConfigHeaders == [Authorization |-> "Bearer key", trace |-> "provider"]

\* combineHeaders(a, b): the entries of b over those of a
combineHeaders(a, b) == IF b = None THEN a ELSE b[1] @@ a

\* A blocking-mode content that holds a text block even for an empty answer
ContentEvenIfEmpty(answer) == <<[type |-> "text", text |-> answer]>>

\* const content = []; if (typedData.answer) content.push({type: "text", ..})
ContentOf(answer) ==
  IF TruthyText(answer) THEN <<[type |-> "text", text |-> answer]>> ELSE <<>>

\* The result doGenerate returns for the response typedData
GenerateResult(typedData, requestBody) ==
  [content |-> ContentOf(typedData.answer),
   finishReason |-> "stop",
   usage |-> [inputTokens |-> typedData.metadata.usage.prompt_tokens,
              outputTokens |-> typedData.metadata.usage.completion_tokens,
              totalTokens |-> typedData.metadata.usage.total_tokens],
   warnings |-> <<>>,
   providerMetadata |->
     [difyWorkflowData |-> [conversationId |-> typedData.conversation_id,
                            messageId |-> typedData.message_id]],
   request |-> [body |-> requestBody],
   response |-> [id |-> typedData.id]]

\* const body = {...requestBody, response_mode: "streaming"}
StreamBody(requestBody) == [requestBody EXCEPT !.response_mode = Some("streaming")]

---------------------------------------------------------------------------
(* Callers' inputs of a request *)

\* DifyChatSettings
SettingsPool ==
  { [responseMode |-> m, inputs |-> i] :
      m \in {None, Some("streaming"), Some("blocking")},
      i \in {None, Some([lang |-> "en"])} }

TextPart(text) == [type |-> "text", text |-> text]

FilePart == [type |-> "file", mediaType |-> "image/png", data |-> "iVBOR"]

UserMessage(parts) == [role |-> "user", content |-> [array |-> parts]]

AssistantMessage(parts) == [role |-> "assistant", content |-> [array |-> parts]]

SystemMessage == [role |-> "system", content |-> [string |-> "be brief"]]

ToolMessage ==
  [role |-> "tool",
   content |-> [array |-> <<[type |-> "tool-result", toolCallId |-> "t1"]>>]]

\* LanguageModelV2Prompt values, and two message lists in the older shape
Prompts ==
  { <<>>,
    <<UserMessage(<<TextPart("hi")>>)>>,
    <<SystemMessage, UserMessage(<<TextPart("a"), TextPart(""), TextPart("b")>>)>>,
    <<UserMessage(<<TextPart("a"), FilePart>>)>>,
    <<UserMessage(<<FilePart, TextPart("a")>>)>>,
    <<UserMessage(<<FilePart>>)>>,
    <<UserMessage(<<TextPart("hi")>>), AssistantMessage(<<TextPart("yo")>>)>>,
    <<UserMessage(<<TextPart("hi")>>), AssistantMessage(<<TextPart("yo"), FilePart>>)>>,
    <<UserMessage(<<TextPart("hi")>>), ToolMessage>>,
    <<SystemMessage>>,
    <<[role |-> "user", content |-> [string |-> "hi"]]>>,
    <<[role |-> "user", content |-> [array |-> <<[string |-> "hi"], TextPart("x")>>]]>> }

\* options.headers
HeadersPool ==
  { None,
    Some(EmptyHeaders),
    Some([trace |-> "caller"]),
    Some([x \in {"user-id"} |-> "u1"]),
    Some([x \in {"chat-id"} |-> "c1"]),
    Some([x \in {"user-id", "chat-id", "trace"} |->
            IF x = "user-id" THEN "u1" ELSE IF x = "chat-id" THEN "c1" ELSE "caller"]),
    Some([x \in {"user-id", "accept"} |-> IF x = "user-id" THEN "" ELSE "json"]) }

\* LanguageModelV2CallOptions
OptionsPool ==
  { [prompt |-> p, headers |-> h] : p \in Prompts, h \in HeadersPool }
  \cup { [messages |-> <<UserMessage(<<TextPart("hi")>>)>>, headers |-> None],
         [headers |-> Some([x \in {"user-id"} |-> "u1"])] }

\* Responses that satisfy completionResponseSchema
CompletionResponse(answer) ==
  [id |-> "r1", answer |-> answer, task_id |-> "t1", conversation_id |-> "c9",
   message_id |-> "m9",
   metadata |-> [usage |-> [completion_tokens |-> 4, prompt_tokens |-> 3,
                            total_tokens |-> 7]]]

Responses ==
  { CompletionResponse(<<>>),
    CompletionResponse(<<"foo">>),
    CompletionResponse(ThinkStart \o <<"why">> \o ThinkEnd \o <<"baz">>) }

---------------------------------------------------------------------------
(* One invocation of the model: the statements of doGenerate and doStream  *)
(* in program order                                                         *)

\* No invocation: the stream specifications translate a response stream
NoCall == [pc |-> "none"]

\* A model instance constructed with the settings `settings`
NewModel(settings) ==
  [pc |-> "ready", method |-> "", configured |-> settings,
   settings |-> Constructor(settings), given |-> None, options |-> None,
   requestBody |-> None, body |-> None, error |-> None, sent |-> <<>>,
   response |-> None, result |-> None]

\* const requestBody = this.getRequestBody(options), which may throw; the
\* body handed to postJsonToApi is requestBody in doGenerate and
\* {...requestBody, response_mode: "streaming"} in doStream
Build(method, options) ==
  LET r == getRequestBody(options, call.settings)
  IN call' = IF r.threw
             THEN [call EXCEPT !.pc = "threw", !.method = method,
                               !.given = Some(options), !.options = Some(r.options),
                               !.error = Some(r.error)]
             ELSE [call EXCEPT !.pc = "built", !.method = method,
                               !.given = Some(options), !.options = Some(r.options),
                               !.requestBody = Some(r.body),
                               !.body = Some(IF method = "doStream"
                                             THEN StreamBody(r.body)
                                             ELSE r.body)]

\* await postJsonToApi({url, headers: combineHeaders(..), body, ..})
Post ==
  call' = [call EXCEPT !.pc = "posted",
                       !.sent = Append(@, [url |-> chatMessagesEndpoint,
                                           headers |-> combineHeaders(ConfigHeaders,
                                                         call.options[1].headers),
                                           body |-> call.body[1]])]

DoGenerateBuild ==
  \E options \in OptionsPool :
    /\ call.pc = "ready"
    /\ Build("doGenerate", options)
    /\ UNCHANGED <<state, pre, events, output, closed, other>>

DoGeneratePost ==
  /\ call.pc = "built"
  /\ call.method = "doGenerate"
  /\ Post
  /\ UNCHANGED <<state, pre, events, output, closed, other>>

DoGenerateReturn ==
  \E typedData \in Responses :
    /\ call.pc = "posted"
    /\ call.method = "doGenerate"
    /\ call' = [call EXCEPT !.pc = "returned", !.response = Some(typedData),
                            !.result = Some(GenerateResult(typedData, call.requestBody[1]))]
    /\ UNCHANGED <<state, pre, events, output, closed, other>>

DoStreamBuild ==
  \E options \in OptionsPool :
    /\ call.pc = "ready"
    /\ Build("doStream", options)
    /\ UNCHANGED <<state, pre, events, output, closed, other>>

DoStreamPost ==
  /\ call.pc = "built"
  /\ call.method = "doStream"
  /\ Post
  /\ UNCHANGED <<state, pre, events, output, closed, other>>

\* return {stream, request: {body: JSON.stringify(body)}, response: {headers}}
DoStreamReturn ==
  /\ call.pc = "posted"
  /\ call.method = "doStream"
  /\ call' = [call EXCEPT !.pc = "returned",
                          !.result = Some([request |-> [body |-> call.body[1]]])]
  /\ UNCHANGED <<state, pre, events, output, closed, other>>

InitRequest ==
  /\ state = InitialState
  /\ pre = InitialState
  /\ events = <<>>
  /\ output = <<>>
  /\ call \in {NewModel(settings) : settings \in SettingsPool}
  /\ closed = None
  /\ other = NewStream

NextRequest ==
  \/ DoGenerateBuild
  \/ DoGeneratePost
  \/ DoGenerateReturn
  \/ DoStreamBuild
  \/ DoStreamPost
  \/ DoStreamReturn

SpecRequest == InitRequest /\ [][NextRequest]_vars

---------------------------------------------------------------------------
(* The stream: chunks are transformed one at a time, each to completion *)

Init ==
  /\ state = InitialState
  /\ pre = InitialState
  /\ events = <<>>
  /\ output = <<>>
  /\ call = NoCall
  /\ closed = None
  /\ other = NewStream

\* One call of transform(chunk, controller)
Step(chunk, bound) ==
  /\ closed = None
  /\ Len(events) < bound
  /\ pre' = state
  /\ state' = Transform(chunk, state).state
  /\ events' = Append(events, chunk)
  /\ output' = Append(output, Transform(chunk, state).parts)
  /\ UNCHANGED <<call, closed, other>>

KnownKinds ==
  {"workflow_started", "workflow_finished", "node_started", "node_finished",
   "agent_thought", "message", "agent_message", "message_end"}

IsKind(chunk, kinds) == chunk.success /\ chunk.value.event \in kinds

FailedChunk(pool, bound) ==
  \E c \in pool :
    /\ ~c.success
    /\ Step(c, bound)

WorkflowStarted(pool, bound) ==
  \E c \in pool :
    /\ IsKind(c, {"workflow_started"})
    /\ Step(c, bound)

WorkflowFinished(pool, bound) ==
  \E c \in pool :
    /\ IsKind(c, {"workflow_finished"})
    /\ Step(c, bound)

NodeStarted(pool, bound) ==
  \E c \in pool :
    /\ IsKind(c, {"node_started"})
    /\ Step(c, bound)

NodeFinished(pool, bound) ==
  \E c \in pool :
    /\ IsKind(c, {"node_finished"})
    /\ Step(c, bound)

AgentThought(pool, bound) ==
  \E c \in pool :
    /\ IsKind(c, {"agent_thought"})
    /\ Step(c, bound)

Message(pool, bound) ==
  \E c \in pool :
    /\ IsKind(c, {"message", "agent_message"})
    /\ Step(c, bound)

MessageEnd(pool, bound) ==
  \E c \in pool :
    /\ IsKind(c, {"message_end"})
    /\ Step(c, bound)

OtherEvent(pool, bound) ==
  \E c \in pool :
    /\ c.success
    /\ c.value.event \notin KnownKinds
    /\ Step(c, bound)

\* Streams of chunks of every kind
Next ==
  \/ FailedChunk(Chunks, MaxEvents)
  \/ WorkflowStarted(Chunks, MaxEvents)
  \/ WorkflowFinished(Chunks, MaxEvents)
  \/ NodeStarted(Chunks, MaxEvents)
  \/ NodeFinished(Chunks, MaxEvents)
  \/ AgentThought(Chunks, MaxEvents)
  \/ Message(Chunks, MaxEvents)
  \/ MessageEnd(Chunks, MaxEvents)
  \/ OtherEvent(Chunks, MaxEvents)

Spec == Init /\ [][Next]_vars

\* Upstream closes or is aborted: the TransformStream has no flush member
StreamEnds ==
  /\ closed = None
  /\ closed' = Some(FlushParts(state))
  /\ UNCHANGED <<state, pre, events, output, call, other>>

\* Streams of chunks of every kind that end at any moment
NextEnd ==
  \/ Next
  \/ StreamEnds

SpecEnd == Init /\ [][NextEnd]_vars

\* transform of the first doStream call on the instance
TransformFirst ==
  \E c \in TwoChunks :
    /\ Len(events) < MaxTwoEvents
    /\ pre' = state
    /\ state' = TransformIn(c, state, other.state).state
    /\ events' = Append(events, c)
    /\ output' = Append(output, TransformIn(c, state, other.state).parts)
    /\ UNCHANGED <<call, closed, other>>

\* transform of the second doStream call on the same instance
TransformSecond ==
  \E c \in TwoChunks :
    /\ Len(other.events) < MaxTwoEvents
    /\ other' = [state |-> TransformIn(c, other.state, state).state,
                 events |-> Append(other.events, c),
                 output |-> Append(other.output,
                                   TransformIn(c, other.state, state).parts)]
    /\ UNCHANGED <<state, pre, events, output, call, closed>>

\* Two streams of one instance, their chunks interleaved in every order
NextTwo ==
  \/ TransformFirst
  \/ TransformSecond

SpecTwo == Init /\ [][NextTwo]_vars

\* Streams that vary the correlation fields
NextIds ==
  \/ OtherEvent(IdChunks, MaxIdEvents)
  \/ Message(IdChunks, MaxIdEvents)
  \/ MessageEnd(IdChunks, MaxIdEvents)
  \/ WorkflowFinished(IdChunks, MaxIdEvents)

SpecIds == Init /\ [][NextIds]_vars

\* Streams that vary the answer fragments
NextSplit ==
  \/ WorkflowFinished(SplitChunks, MaxSplitEvents)
  \/ Message(SplitChunks, MaxSplitEvents)
  \/ MessageEnd(SplitChunks, MaxSplitEvents)

SpecSplit == Init /\ [][NextSplit]_vars

\* Streams that vary the workflow and node events
NextLedger ==
  \/ WorkflowStarted(LedgerChunks, MaxLedgerEvents)
  \/ WorkflowFinished(LedgerChunks, MaxLedgerEvents)
  \/ NodeStarted(LedgerChunks, MaxLedgerEvents)
  \/ NodeFinished(LedgerChunks, MaxLedgerEvents)
  \/ MessageEnd(LedgerChunks, MaxLedgerEvents)

SpecLedger == Init /\ [][NextLedger]_vars

---------------------------------------------------------------------------
(* Reading the emitted sequence *)

RECURSIVE Flatten(_)
Flatten(seqs) ==
  IF seqs = <<>> THEN <<>> ELSE Head(seqs) \o Flatten(Tail(seqs))

\* The parts emitted for the first i chunks, in emission order
Emitted(i) == Flatten(SubSeq(output, 1, i))

AllEmitted == Emitted(Len(output))

OfType(parts, types) == SelectSeq(parts, LAMBDA p : p.type \in types)

\* The positions of parts whose type is in `types`
Positions(parts, types) == {k \in 1..Len(parts) : parts[k].type \in types}

Last(parts) == parts[Len(parts)]

\* Whether the answer channel is open at the end of `parts`: the last
\* text-start / text-end part is a text-start
TextOpenAfter(parts) ==
  LET marks == OfType(parts, {"text-start", "text-end"})
  IN marks # <<>> /\ Last(marks).type = "text-start"

\* Whether a reasoning block is open at the end of `parts`
ReasoningOpenAfter(parts) ==
  LET marks == OfType(parts, {"reasoning-start", "reasoning-end"})
  IN marks # <<>> /\ Last(marks).type = "reasoning-start"

\* The id of the most recent reasoning-start of `parts`
LastReasoningId(parts) == Last(OfType(parts, {"reasoning-start"})).id

IsEvent(i, kinds) == events[i].success /\ events[i].value.event \in kinds

\* The first non-empty value of `key` on the validated events 1..i
FirstNonEmpty(key, i) ==
  LET carriers == {j \in 1..i : events[j].success
                                /\ TruthyStr(Get(events[j].value, key))}
  IN IF carriers = {} THEN None
     ELSE Get(events[CHOOSE j \in carriers : \A k \in carriers : j <= k].value, key)

---------------------------------------------------------------------------
(* C1: the conversationId, messageId and taskId of every finish part equal *)
(* the FIRST non-empty conversation_id, message_id and task_id seen on any *)
(* validated event up to and including the event that produced the finish  *)
(* part; a later, different non-empty value does not change them.           *)
C1_FinishIdsAreFirstSeen ==
  \A i \in 1..Len(events) :
    \A k \in Positions(output[i], {"finish"}) :
      LET md == output[i][k].providerMetadata.difyWorkflowData
      IN /\ md.conversationId = FirstNonEmpty("conversation_id", i)
         /\ md.messageId = FirstNonEmpty("message_id", i)
         /\ md.taskId = FirstNonEmpty("task_id", i)

(* C2: at most one finish part is emitted on a stream; in particular a     *)
(* stream holding a workflow_finished and a message_end event produces a    *)
(* single finish part.                                                      *)
C2_AtMostOneFinish ==
  Cardinality(Positions(AllEmitted, {"finish"})) <= 1

(* C3: once a finish part or an error part has been emitted, no further    *)
(* part of any type is emitted on the stream.                               *)
C3_NothingAfterFinishOrError ==
  \A k \in Positions(AllEmitted, {"finish", "error"}) : k = Len(AllEmitted)

(* C4: no text-start part is emitted while the answer channel is already   *)
(* open: between any two text-start parts there is a text-end part.        *)
C4_NoTextStartWhileOpen ==
  \A k \in Positions(AllEmitted, {"text-start"}) :
    ~TextOpenAfter(SubSeq(AllEmitted, 1, k - 1))

ChannelTypes ==
  {"reasoning-start", "reasoning-delta", "reasoning-end",
   "text-start", "text-delta", "text-end"}

\* The text of fragment f after / before the first occurrence of a marker in it
AfterMarker(f, marker) == SubSeq(f, IndexOf(f, marker) + Len(marker), Len(f))

BeforeMarker(f, marker) == SubSeq(f, 1, IndexOf(f, marker) - 1)

\* What the documented sequence prescribes for answer fragment f arriving
\* after the parts `before` have been emitted, given the channel parts `got`
\* emitted for it
DocumentedReasoningSequence(f, before, got) ==
  LET open == ReasoningOpenAfter(before)
      started == {p.id : p \in {before[k] : k \in Positions(before, {"reasoning-start"})}}
  IN /\ (~open /\ Includes(f, ThinkStart)) =>
          /\ got # <<>>
          /\ got[1].type = "reasoning-start"
          /\ got[1].id \notin started
          /\ Tail(got) = IF AfterMarker(f, ThinkStart) # <<>>
                         THEN <<ReasoningDelta(got[1].id, AfterMarker(f, ThinkStart))>>
                         ELSE <<>>
     /\ (open /\ ~Includes(f, ThinkEnd)) =>
          got = <<ReasoningDelta(LastReasoningId(before), f)>>
     /\ (open /\ Includes(f, ThinkEnd)) =>
          got = (IF BeforeMarker(f, ThinkEnd) # <<>>
                 THEN <<ReasoningDelta(LastReasoningId(before), BeforeMarker(f, ThinkEnd))>>
                 ELSE <<>>)
                \o <<ReasoningEnd(LastReasoningId(before))>>
                \o (IF AfterMarker(f, ThinkEnd) # <<>>
                    THEN <<TextStart, TextDelta(AfterMarker(f, ThinkEnd))>>
                    ELSE <<>>)

\* Reasoning parts are bracketed: delta and end only inside a block and with
\* the id of its reasoning-start, no reasoning-start inside a block
ReasoningBracketed(parts) ==
  \A k \in 1..Len(parts) :
    LET before == SubSeq(parts, 1, k - 1)
    IN /\ parts[k].type \in {"reasoning-delta", "reasoning-end"} =>
            ReasoningOpenAfter(before) /\ parts[k].id = LastReasoningId(before)
       /\ parts[k].type = "reasoning-start" => ~ReasoningOpenAfter(before)

(* C5: reasoning parts are well bracketed and follow the documented        *)
(* sequence: outside a block, a fragment with the begin-marker emits       *)
(* reasoning-start with a fresh id, then reasoning-delta of the text after *)
(* the marker if non-empty; inside a block a fragment without the          *)
(* end-marker emits one reasoning-delta; the fragment with the end-marker  *)
(* emits reasoning-delta of the text before it if non-empty, reasoning-end, *)
(* then text-start and text-delta of the text after it if non-empty.  For  *)
(* "<think>\nfoo", "bar\n</think>baz" the output is reasoning-start,       *)
(* reasoning-delta(foo), reasoning-delta(bar), reasoning-end, text-start,  *)
(* text-delta(baz).                                                         *)
C5_ReasoningSequence ==
  /\ ReasoningBracketed(AllEmitted)
  /\ \A i \in 1..Len(events) :
       (IsEvent(i, {"message", "agent_message"}) /\ "answer" \in DOMAIN events[i].value) =>
         DocumentedReasoningSequence(events[i].value.answer, Emitted(i - 1),
                                     OfType(output[i], ChannelTypes))
  /\ (/\ Len(events) = 2
      /\ events[1] = Valid(MessageEvent(ThinkStart \o <<"foo">>))
      /\ events[2] = Valid(MessageEvent(<<"bar">> \o ThinkEnd \o <<"baz">>)))
     => \E id \in 1..2 :
          AllEmitted = <<ReasoningStart(id), ReasoningDelta(id, <<"foo">>),
                         ReasoningDelta(id, <<"bar">>), ReasoningEnd(id),
                         TextStart, TextDelta(<<"baz">>)>>

---------------------------------------------------------------------------
(* C6: on every message_end event, if and only if the answer channel is    *)
(* open exactly one text-end part is emitted and the channel is closed;    *)
(* then exactly one finish part is emitted, as the last part of the event. *)
(* Hence no text-start emitted before a message_end is left without a      *)
(* text-end after that message_end's finish.                               *)
C6_MessageEndClosesText ==
  /\ \A i \in 1..Len(events) :
       IsEvent(i, {"message_end"}) =>
         LET open == TextOpenAfter(Emitted(i - 1))
         IN /\ OfType(output[i], {"text-end"}) = IF open THEN <<TextEnd>> ELSE <<>>
            /\ Cardinality(Positions(output[i], {"finish"})) = 1
            /\ Last(output[i]).type = "finish"
            /\ Len(output[i]) = IF open THEN 2 ELSE 1
            /\ ~TextOpenAfter(Emitted(i))
  /\ (events # <<>> /\ IsEvent(Len(events), {"message_end"})) => ~state.isActiveText

\* A message_end has just closed an open answer channel
C6_Witness ==
  /\ Len(events) >= 2
  /\ IsEvent(Len(events), {"message_end"})
  /\ TextOpenAfter(Emitted(Len(events) - 1))
  /\ Last(output)[1] = TextEnd
  /\ Last(output)[2].type = "finish"

---------------------------------------------------------------------------
\* Transforming the chunks `chunks` in order, starting in StreamState st
RECURSIVE RunFrom(_, _)
RunFrom(st, chunks) ==
  IF chunks = <<>> THEN [state |-> st, output |-> <<>>]
  ELSE LET r == Transform(Head(chunks), st)
           rest == RunFrom(r.state, Tail(chunks))
       IN [state |-> rest.state, output |-> <<r.parts>> \o rest.output]

\* output[i] for the validated chunks i of events[1..n], in order
RECURSIVE ValidOutputs(_)
ValidOutputs(n) ==
  IF n = 0 THEN <<>>
  ELSE ValidOutputs(n - 1) \o (IF events[n].success THEN <<output[n]>> ELSE <<>>)

(* C7: a stream element that fails validation produces exactly one error   *)
(* part carrying the parse error and leaves the whole StreamState          *)
(* unchanged; the transform goes on, and the valid events are translated   *)
(* exactly as if the failed elements had not occurred.                     *)
C7_FailedChunkIsIsolated ==
  /\ \A i \in 1..Len(events) :
       ~events[i].success => output[i] = <<ErrorPart(events[i].error)>>
  /\ (events # <<>> /\ ~Last(events).success) => state = pre
  /\ LET alone == RunFrom(InitialState, SelectSeq(events, LAMBDA c : c.success))
     IN /\ alone.state = state
        /\ alone.output = ValidOutputs(Len(events))

\* A failed chunk arrived inside a reasoning block, and the fragment after it
\* was still translated as reasoning
C7_Witness ==
  /\ Len(events) = 3
  /\ ~events[2].success
  /\ events[3].success
  /\ output[2] = <<ErrorPart(events[2].error)>>
  /\ output[3] # <<>>
  /\ output[3][1].type = "reasoning-delta"

---------------------------------------------------------------------------
(* C8: every validated event of a kind outside the eight handled kinds     *)
(* (ping, tts_message, any unknown tag) produces exactly one raw part and  *)
(* nothing else; the raw part carries the fields of the event and a        *)
(* difyEvent field equal to the event's kind, whatever passthrough fields  *)
(* the event carries; no state other than the identifiers changes.         *)
C8_OtherEventsPassThrough ==
  /\ \A i \in 1..Len(events) :
       (events[i].success /\ events[i].value.event \notin KnownKinds) =>
         LET v == events[i].value
         IN /\ Len(output[i]) = 1
            /\ output[i][1].type = "raw"
            /\ output[i][1].rawValue.difyEvent = v.event
            /\ \A k \in DOMAIN v \ {"difyEvent"} :
                 /\ k \in DOMAIN output[i][1].rawValue
                 /\ output[i][1].rawValue[k] = v[k]
  /\ (events # <<>> /\ Last(events).success
      /\ Last(events).value.event \notin KnownKinds) =>
       [state EXCEPT !.conversationId = pre.conversationId,
                     !.messageId = pre.messageId,
                     !.taskId = pre.taskId] = pre

---------------------------------------------------------------------------
\* The node ids seen in node_started events among the first i chunks
NodeIdsStarted(i) ==
  {events[j].value.data.node_id :
     j \in {x \in 1..i : IsEvent(x, {"node_started"})
                         /\ DataHas(events[x].value, {"node_id"})}}

\* The execution reports attached to the finish parts of chunk i
ReportsOf(i) ==
  {output[i][k].providerMetadata.difyWorkflowData.workflowExecution[1] :
     k \in {x \in Positions(output[i], {"finish"}) :
              output[i][x].providerMetadata.difyWorkflowData.workflowExecution # None}}

(* C9: the nodes list of every execution report has exactly one record per *)
(* distinct node id observed in a node_started event, and each record's    *)
(* duration is finish minus start when both timestamps are present (for    *)
(* every timestamp value) and absent otherwise.                            *)
C9_OneRecordPerStartedNode ==
  \A i \in 1..Len(events) :
    \A report \in ReportsOf(i) :
      /\ {report.nodes[x].nodeId : x \in 1..Len(report.nodes)} = NodeIdsStarted(i)
      /\ \A x, y \in 1..Len(report.nodes) :
           report.nodes[x].nodeId = report.nodes[y].nodeId => x = y
      /\ \A x \in 1..Len(report.nodes) :
           report.nodes[x].duration =
             IF report.nodes[x].startedAt # None /\ report.nodes[x].finishedAt # None
             THEN Some(report.nodes[x].finishedAt[1] - report.nodes[x].startedAt[1])
             ELSE None

---------------------------------------------------------------------------
\* Chunk i is a node_finished for a node id no earlier node_started carried
UnknownNodeFinished(i) ==
  /\ IsEvent(i, {"node_finished"})
  /\ DataHas(events[i].value, {"node_id"})
  /\ events[i].value.data.node_id \notin NodeIdsStarted(i - 1)

(* C10: a node_finished for a node id that never appeared in a             *)
(* node_started does not fail the stream: no error part, no ledger record  *)
(* created or given a duration, the raw part is still emitted, with an     *)
(* absent duration, and no report holds a record with a defined duration   *)
(* for a node id that never appeared in a node_started.                    *)
C10_UnknownNodeFinishedTolerated ==
  /\ \A i \in 1..Len(events) :
       UnknownNodeFinished(i) =>
         /\ Positions(output[i], {"error"}) = {}
         /\ Last(output[i]).type = "raw"
         /\ Last(output[i]).rawValue.difyEvent = "node_finished"
         /\ Last(output[i]).rawValue.duration = None
         /\ Cardinality(Positions(output[i], {"raw"})) = 1
  /\ (events # <<>> /\ UnknownNodeFinished(Len(events))) => state.nodes = pre.nodes
  /\ \A x \in 1..Len(state.nodes) :
       state.nodes[x].nodeId \in NodeIdsStarted(Len(events))
  /\ \A i \in 1..Len(events) :
       \A report \in ReportsOf(i) :
         \A x \in 1..Len(report.nodes) :
           report.nodes[x].duration # None =>
             report.nodes[x].nodeId \in NodeIdsStarted(i)

\* A node_finished carrying a timestamp, for a node that never started, was
\* translated, and a report was later attached to a finish part
C10_Witness ==
  /\ \E i \in 1..Len(events) - 1 :
       /\ UnknownNodeFinished(i)
       /\ TruthyNum(Get(events[i].value, "created_at"))
       /\ events[i].value.data.node_id \notin NodeIdsStarted(Len(events))
       /\ Last(output[i]).rawValue.duration = None
  /\ ReportsOf(Len(events)) # {}

---------------------------------------------------------------------------
\* A workflow_started event is among the first i chunks
WorkflowStartedIn(i) == \E j \in 1..i : IsEvent(j, {"workflow_started"})

\* The workflowExecution fields of the finish parts of chunk i
ExecutionsOf(i) ==
  {output[i][k].providerMetadata.difyWorkflowData.workflowExecution :
     k \in Positions(output[i], {"finish"})}

(* C11: the workflowExecution report of a finish part is absent if and     *)
(* only if no workflow_started event was processed earlier in the stream;  *)
(* a workflow_finished or message_end without a preceding workflow_started *)
(* still yields a finish part, with an absent report; when a workflow was  *)
(* started the report carries workflow id, run id, start and finish        *)
(* timestamps and a duration defined only if both timestamps are present.  *)
C11_ReportAbsentIffNoWorkflowStarted ==
  \A i \in 1..Len(events) :
    /\ IsEvent(i, {"workflow_finished", "message_end"}) =>
         Cardinality(Positions(output[i], {"finish"})) = 1
    /\ \A r \in ExecutionsOf(i) :
         /\ (r = None) <=> ~WorkflowStartedIn(i - 1)
         /\ r # None =>
              /\ {"workflowId", "workflowRunId", "startedAt", "finishedAt",
                  "duration"} \subseteq DOMAIN r[1]
              /\ r[1].duration # None =>
                   r[1].startedAt # None /\ r[1].finishedAt # None

---------------------------------------------------------------------------
\* The kinds of event that write the workflow and node ledger
LedgerKinds ==
  {"workflow_started", "workflow_finished", "node_started", "node_finished"}

---------------------------------------------------------------------------
\* The stored identifiers and the event fields they are captured from
IdFields ==
  { <<"conversationId", "conversation_id">>, <<"messageId", "message_id">>,
    <<"taskId", "task_id">> }

(* C13: an event whose conversation_id, message_id or task_id is absent or *)
(* the empty string never changes the corresponding stored identifier:     *)
(* once an identifier has been set it is never reset to absent or empty by *)
(* any later event.                                                         *)
C13_EmptyIdNeverResets ==
  events # <<>> =>
    \A f \in IdFields :
      /\ (Last(events).success /\ ~TruthyStr(Get(Last(events).value, f[2]))) =>
           state[f[1]] = pre[f[1]]
      /\ TruthyStr(pre[f[1]]) => TruthyStr(state[f[1]])

\* An event with empty identifiers, and one with an empty task_id next to a
\* new conversation_id, arrived after the identifiers had been set
C13_Witness ==
  /\ Len(events) = 3
  /\ \A f \in IdFields : TruthyStr(RunFrom(InitialState, SubSeq(events, 1, 1)).state[f[1]])
  /\ \A f \in IdFields : Get(events[2].value, f[2]) = Some("")
  /\ Get(events[3].value, "task_id") = Some("")
  /\ "message_id" \notin DOMAIN events[3].value
  /\ state.taskId = RunFrom(InitialState, SubSeq(events, 1, 1)).state.taskId
  /\ state.messageId = RunFrom(InitialState, SubSeq(events, 1, 1)).state.messageId

---------------------------------------------------------------------------
(* Reading an invocation *)

\* The message list the caller gave, <<>> when it gave none
GivenMessages ==
  IF "prompt" \in DOMAIN call.given[1] THEN call.given[1].prompt
  ELSE IF "messages" \in DOMAIN call.given[1] THEN call.given[1].messages
       ELSE <<>>

\* The headers the caller gave, the empty record when it gave none
GivenHeaders ==
  IF call.given[1].headers = None THEN EmptyHeaders ELSE call.given[1].headers[1]

\* The last message the caller gave holds a file part
LastMessageHasFile ==
  /\ GivenMessages # <<>>
  /\ "array" \in DOMAIN Last(GivenMessages).content
  /\ \E i \in 1..Len(Last(GivenMessages).content.array) :
       Get(Last(GivenMessages).content.array[i], "type") = Some("file")

\* The invocation threw an APICallError with this message and sent nothing
FailedConstruction(message) ==
  /\ call.pc = "threw"
  /\ call.error # None
  /\ call.error[1].name = "APICallError"
  /\ call.error[1].message = message
  /\ call.requestBody = None
  /\ call.sent = <<>>

(* C14: request construction fails, before any network call is issued,     *)
(* when the message list is empty or the last message's role is not        *)
(* "user"; in doGenerate and in doStream the request body is built, and    *)
(* the error raised, strictly before postJsonToApi is invoked, so that no  *)
(* request is sent for such input.                                          *)
C14_ConstructionFailsBeforeAnyRequest ==
  call.given # None =>
    /\ GivenMessages = <<>> => FailedConstruction("No messages provided")
    /\ (GivenMessages # <<>> /\ Last(GivenMessages).role # "user") =>
         FailedConstruction("The last message must be a user message")
    /\ call.sent # <<>> => call.requestBody # None /\ call.error = None
    /\ call.error # None => call.sent = <<>>

\* doStream was called with a last message of role assistant and threw
C14_Witness ==
  /\ call.method = "doStream"
  /\ Len(GivenMessages) = 2
  /\ Last(GivenMessages).role = "assistant"
  /\ FailedConstruction("The last message must be a user message")

(* C15: a request whose last message contains a file-type content part     *)
(* fails construction with the attachment-not-supported error, whatever    *)
(* other parts that message contains, and no request is sent.              *)
C15_FilePartFailsWithAttachmentError ==
  (call.given # None /\ LastMessageHasFile) =>
    FailedConstruction("Dify provider does not currently support file attachments")

(* C15, amended: a request whose last message is a user message that       *)
(* contains a file-type content part fails construction with the           *)
(* attachment-not-supported error, whatever other parts that message       *)
(* contains, and no request is sent; when the last message is not a user   *)
(* message the error is the role error instead.                            *)
C15_UserFilePartFailsWithAttachmentError ==
  (call.given # None /\ LastMessageHasFile) =>
    IF Last(GivenMessages).role = "user"
    THEN /\ FailedConstruction("Dify provider does not currently support file attachments")
         /\ call.error[1].requestBodyValues = [hasAttachments |-> TRUE]
    ELSE FailedConstruction("The last message must be a user message")

\* A user message with a text part followed by a file part was refused
C15_Witness ==
  /\ call.given # None
  /\ LastMessageHasFile
  /\ Last(GivenMessages).role = "user"
  /\ Last(GivenMessages).content.array[1].type = "text"
  /\ FailedConstruction("Dify provider does not currently support file attachments")

(* C16: for every successfully built request the body's user field equals  *)
(* the caller's user-id header, or the placeholder when that header is     *)
(* absent; the body's conversation_id equals the caller's chat-id header   *)
(* (absent when not given); neither user-id nor chat-id is among the       *)
(* headers forwarded upstream, and every other caller header is forwarded  *)
(* unchanged.                                                               *)
C16_HeadersBecomeBodyFields ==
  (call.given # None /\ call.requestBody # None) =>
    /\ \A body \in {call.requestBody[1], call.body[1]}
                   \cup {call.sent[k].body : k \in 1..Len(call.sent)} :
         /\ body.user = IF "user-id" \in DOMAIN GivenHeaders
                        THEN GivenHeaders["user-id"]
                        ELSE "you_should_pass_user-id"
         /\ body.conversation_id = Get(GivenHeaders, "chat-id")
    /\ \A k \in 1..Len(call.sent) :
         /\ "user-id" \notin DOMAIN call.sent[k].headers
         /\ "chat-id" \notin DOMAIN call.sent[k].headers
         /\ \A name \in DOMAIN GivenHeaders \ {"user-id", "chat-id"} :
              Get(call.sent[k].headers, name) = Some(GivenHeaders[name])

\* A request was sent for a caller that gave user-id, chat-id and one more
\* header
C16_Witness ==
  /\ call.pc = "posted"
  /\ DOMAIN GivenHeaders = {"user-id", "chat-id", "trace"}
  /\ call.sent[1].body.user = "u1"
  /\ call.sent[1].body.conversation_id = Some("c1")
  /\ call.sent[1].headers = [Authorization |-> "Bearer key", trace |-> "caller"]

(* C17: the blocking-mode result holds exactly one text content block with *)
(* the answer verbatim (reasoning markers included, no splitting) when the *)
(* answer is non-empty and no content block when it is the empty string;   *)
(* the finish reason is "stop", the usage counters are the response's      *)
(* prompt, completion and total tokens and the metadata exposes the        *)
(* response's conversation and message ids.                                *)
C17_BlockingResult ==
  (call.method = "doGenerate" /\ call.result # None) =>
    LET typedData == call.response[1]
        result == call.result[1]
    IN /\ typedData.answer # <<>> =>
            /\ Len(result.content) = 1
            /\ result.content[1].type = "text"
            /\ result.content[1].text = typedData.answer
       /\ typedData.answer = <<>> => result.content = <<>>
       /\ result.finishReason = "stop"
       /\ result.usage.inputTokens = typedData.metadata.usage.prompt_tokens
       /\ result.usage.outputTokens = typedData.metadata.usage.completion_tokens
       /\ result.usage.totalTokens = typedData.metadata.usage.total_tokens
       /\ \E key \in DOMAIN result.providerMetadata :
            /\ result.providerMetadata[key].conversationId = typedData.conversation_id
            /\ result.providerMetadata[key].messageId = typedData.message_id

\* doGenerate returned an answer that holds a reasoning block
C17_Witness ==
  /\ call.method = "doGenerate"
  /\ call.result # None
  /\ Includes(call.response[1].answer, ThinkStart)
  /\ Includes(call.response[1].answer, ThinkEnd)
  /\ Len(call.result[1].content) = 1
  /\ call.result[1].usage.totalTokens = 7

(* C18: the response_mode of a request body is "streaming" whenever no     *)
(* responseMode is configured, equals the configured responseMode for      *)
(* requests built by doGenerate, and is always "streaming" for requests    *)
(* built by doStream, whatever responseMode is configured.                 *)
C18_ResponseMode ==
  /\ (call.requestBody # None /\ call.configured.responseMode = None) =>
       call.requestBody[1].response_mode = Some("streaming")
  /\ \A k \in 1..Len(call.sent) :
       call.sent[k].body.response_mode =
         IF call.method = "doStream" THEN Some("streaming")
         ELSE IF call.configured.responseMode = None THEN Some("streaming")
              ELSE call.configured.responseMode

\* doStream sent a request on a model configured with the blocking mode
C18_Witness ==
  /\ call.pc = "posted"
  /\ call.method = "doStream"
  /\ call.configured.responseMode = Some("blocking")
  /\ call.requestBody[1].response_mode = Some("blocking")
  /\ call.sent[1].body.response_mode = Some("streaming")

---------------------------------------------------------------------------
(* C19: on every finish part of a stream the provider metadata exposes     *)
(* conversationId, messageId, taskId and workflowExecution under the key   *)
(* `dify` (read as part.providerMetadata.dify.workflowExecution).          *)
C19_FinishMetadataUnderDify ==
  \A k \in Positions(AllEmitted, {"finish"}) :
    /\ "dify" \in DOMAIN AllEmitted[k].providerMetadata
    /\ {"conversationId", "messageId", "taskId", "workflowExecution"}
         \subseteq DOMAIN AllEmitted[k].providerMetadata.dify

\* A workflow_started event that carries a non-empty workflow id and a start
\* timestamp is among the first i chunks
WorkflowWithIdStartedIn(i) ==
  \E j \in 1..i :
    /\ IsEvent(j, {"workflow_started"})
    /\ DataHas(events[j].value, {"workflow_id", "created_at"})
    /\ events[j].value.data.workflow_id # ""

(* C20: the raw part emitted for a workflow_finished event carries an      *)
(* executionReport field (workflow id, duration and the list of nodes with *)
(* their durations) whenever a workflow has been started.                  *)
C20_RawWorkflowFinishedHasReport ==
  \A i \in 1..Len(events) :
    (IsEvent(i, {"workflow_finished"}) /\ WorkflowWithIdStartedIn(i - 1)) =>
      /\ Positions(output[i], {"raw"}) # {}
      /\ \A k \in Positions(output[i], {"raw"}) :
           /\ "executionReport" \in DOMAIN output[i][k].rawValue
           /\ {"workflowId", "duration", "nodes"}
                \subseteq DOMAIN output[i][k].rawValue.executionReport

---------------------------------------------------------------------------
\* The last non-empty value of `key` on the validated events 1..i
LastNonEmpty(key, i) ==
  LET carriers == {j \in 1..i : events[j].success
                                /\ TruthyStr(Get(events[j].value, key))}
  IN IF carriers = {} THEN None
     ELSE Get(events[CHOOSE j \in carriers : \A k \in carriers : j >= k].value, key)

---------------------------------------------------------------------------
(* C22: a workflow_finished event never closes a channel: it emits no      *)
(* text-end and no reasoning-end part and leaves the inside-reasoning      *)
(* flag, the reasoning id and the answer-channel-open flag unchanged, so   *)
(* an answer channel open before it is still open after it and is closed   *)
(* only by a later message_end.                                             *)
C22_WorkflowFinishedClosesNothing ==
  /\ \A i \in 1..Len(events) :
       IsEvent(i, {"workflow_finished"}) =>
         /\ Positions(output[i], {"text-end", "reasoning-end"}) = {}
         /\ TextOpenAfter(Emitted(i - 1)) => TextOpenAfter(Emitted(i))
         /\ ReasoningOpenAfter(Emitted(i - 1)) => ReasoningOpenAfter(Emitted(i))
  /\ (events # <<>> /\ IsEvent(Len(events), {"workflow_finished"})) =>
       /\ state.isInThinking = pre.isInThinking
       /\ state.reasoningId = pre.reasoningId
       /\ state.isActiveText = pre.isActiveText
       /\ state.isActiveReasoning = pre.isActiveReasoning
  /\ \A i \in 1..Len(events) :
       Positions(output[i], {"text-end"}) # {} => IsEvent(i, {"message_end"})
  /\ \A i \in 2..Len(events) :
       (/\ IsEvent(i - 1, {"workflow_finished"})
        /\ IsEvent(i, {"message_end"})
        /\ TextOpenAfter(Emitted(i - 2))) => output[i][1] = TextEnd

\* An answer channel was open across a workflow_finished and closed by the
\* message_end after it
C22_Witness ==
  /\ Len(events) = 3
  /\ IsEvent(2, {"workflow_finished"})
  /\ IsEvent(3, {"message_end"})
  /\ TextOpenAfter(Emitted(1))
  /\ TextOpenAfter(Emitted(2))
  /\ output[3][1] = TextEnd
  /\ ~state.isActiveText

---------------------------------------------------------------------------
\* The usage of the finish part that message_end event i emitted
FinishUsageOf(i) == Last(output[i]).usage

---------------------------------------------------------------------------
\* The ledger fields of the accumulator outside the node records
LedgerFields ==
  {"workflowId", "workflowRunId", "workflowStartedAt", "workflowFinishedAt"}

(* C24: the workflow ledger is monotonic. Across every event, a node       *)
(* record stays where it is (never removed, updated in place), and a       *)
(* ledger field that was set (workflow id, run id, workflow start/finish   *)
(* timestamp, a node record's start or finish timestamp) is still set      *)
(* afterwards; in particular a repeated node_started for a finished node   *)
(* does not erase that record's finish timestamp.                           *)
C24_LedgerMonotonic ==
  /\ \A k \in LedgerFields : pre[k] # None => state[k] # None
  /\ Len(state.nodes) >= Len(pre.nodes)
  /\ \A j \in 1..Len(pre.nodes) :
       j <= Len(state.nodes) =>
         /\ state.nodes[j].nodeId = pre.nodes[j].nodeId
         /\ pre.nodes[j].startedAt # None => state.nodes[j].startedAt # None
         /\ pre.nodes[j].finishedAt # None => state.nodes[j].finishedAt # None

---------------------------------------------------------------------------
\* Event i is a node event of `kind` with the payload its schema requires
SchemaValidNode(i, kind) ==
  /\ IsEvent(i, {kind})
  /\ DataHas(events[i].value, {"node_id", "node_type", "created_at"})

\* The parts of a recorded node event: response-metadata `node-<id>`, raw
NodeParts(i, kind) ==
  /\ Len(output[i]) = 2
  /\ output[i][1].type = "response-metadata"
  /\ output[i][1].id = Some(<<"node-", events[i].value.data.node_id>>)
  /\ output[i][2].type = "raw"
  /\ output[i][2].rawValue.difyEvent = kind

(* C25: every schema-valid node_started event, with or without a           *)
(* top-level created_at, leaves a record for its node id holding a start   *)
(* timestamp and emits response-metadata `node-<node id>` then raw; every  *)
(* schema-valid node_finished event for a recorded node sets the record's  *)
(* finish timestamp and emits response-metadata then a raw part whose      *)
(* duration is finish minus the recorded start.                             *)
C25_NodeEventsRecordAndEmit ==
  LET n == Len(events)
      id == events[n].value.data.node_id
  IN /\ (n > 0 /\ SchemaValidNode(n, "node_started")) =>
          /\ NodeIndex(state.nodes, id) # 0
          /\ state.nodes[NodeIndex(state.nodes, id)].startedAt # None
          /\ NodeParts(n, "node_started")
     /\ (n > 0 /\ SchemaValidNode(n, "node_finished")
               /\ NodeIndex(pre.nodes, id) # 0) =>
          LET before == pre.nodes[NodeIndex(pre.nodes, id)]
              after == state.nodes[NodeIndex(state.nodes, id)]
          IN /\ after.finishedAt # None
             /\ NodeParts(n, "node_finished")
             /\ before.startedAt # None
             /\ output[n][2].rawValue.duration =
                  Some(after.finishedAt[1] - before.startedAt[1])

---------------------------------------------------------------------------
(* C26: a workflow_started event never resets the workflow finish          *)
(* timestamp: after workflow_started, workflow_finished, workflow_started  *)
(* the finish timestamp is still the one the workflow_finished set; the    *)
(* event also leaves the node records and the reasoning/answer flags       *)
(* unchanged.                                                               *)
C26_WorkflowStartedKeepsFinish ==
  /\ (events # <<>> /\ IsEvent(Len(events), {"workflow_started"})) =>
       /\ state.workflowFinishedAt = pre.workflowFinishedAt
       /\ state.nodes = pre.nodes
       /\ state.isInThinking = pre.isInThinking
       /\ state.reasoningId = pre.reasoningId
       /\ state.isActiveText = pre.isActiveText
       /\ state.isActiveReasoning = pre.isActiveReasoning
  /\ \A i \in 1..Len(events) - 1 :
       (/\ IsEvent(i, {"workflow_finished"})
        /\ \A j \in (i + 1)..Len(events) : IsEvent(j, {"workflow_started"})) =>
         state.workflowFinishedAt = Some(events[i].value.data.finished_at)

\* workflow_started, workflow_finished, workflow_started: the finish
\* timestamp 15 survives the second start
C26_Witness ==
  /\ Len(events) = 3
  /\ IsEvent(1, {"workflow_started"})
  /\ IsEvent(2, {"workflow_finished"})
  /\ IsEvent(3, {"workflow_started"})
  /\ DataHas(events[3].value, {"workflow_id", "created_at"})
  /\ state.workflowFinishedAt = Some(15)
  /\ state.workflowStartedAt = Some(10)

---------------------------------------------------------------------------
\* The last chunk is an answer fragment (message or agent_message)
LastIsFragment ==
  /\ events # <<>>
  /\ IsEvent(Len(events), {"message", "agent_message"})
  /\ "answer" \in DOMAIN events[Len(events)].value

\* The answer fragment of the last chunk
LastFragment == events[Len(events)].value.answer

\* The last chunk is a fragment that arrived outside a reasoning block and
\* holds the begin-marker and, after it, the end-marker
BothMarkersOutsideReasoning ==
  /\ LastIsFragment
  /\ ~pre.isInThinking
  /\ Includes(LastFragment, ThinkStart)
  /\ Includes(AfterMarker(LastFragment, ThinkStart), ThinkEnd)

---------------------------------------------------------------------------
(* C28: a message_end arriving while a reasoning block is open emits no    *)
(* reasoning-end, still emits its finish part and leaves the               *)
(* inside-reasoning flag and the reasoning id unchanged, so that an answer *)
(* fragment arriving afterwards is still emitted as reasoning-delta of the *)
(* open block.                                                              *)
C28_MessageEndLeavesReasoningOpen ==
  /\ (/\ events # <<>>
      /\ IsEvent(Len(events), {"message_end"})
      /\ pre.isInThinking) =>
       /\ Positions(output[Len(events)], {"reasoning-end"}) = {}
       /\ Last(output[Len(events)]).type = "finish"
       /\ Cardinality(Positions(output[Len(events)], {"finish"})) = 1
       /\ state.isInThinking
       /\ state.reasoningId = pre.reasoningId
       /\ state.isActiveReasoning = pre.isActiveReasoning
  /\ \A i \in 2..Len(events) :
       (/\ IsEvent(i - 1, {"message_end"})
        /\ ReasoningOpenAfter(Emitted(i - 2))
        /\ IsEvent(i, {"message", "agent_message"})
        /\ "answer" \in DOMAIN events[i].value
        /\ TruthyText(events[i].value.answer)
        /\ ~Includes(events[i].value.answer, ThinkEnd)) =>
         /\ ReasoningOpenAfter(Emitted(i - 1))
         /\ OfType(output[i], ChannelTypes) =
              <<ReasoningDelta(LastReasoningId(Emitted(i - 2)), events[i].value.answer)>>

\* A reasoning block was opened, a message_end arrived, and the fragment
\* after it went to the reasoning channel
C28_Witness ==
  /\ Len(events) = 3
  /\ IsEvent(2, {"message_end"})
  /\ ReasoningOpenAfter(Emitted(1))
  /\ Last(output[2]).type = "finish"
  /\ Positions(output[2], {"reasoning-end"}) = {}
  /\ IsEvent(3, {"message"})
  /\ output[3] = <<ReasoningDelta(state.reasoningId, <<"foo">>)>>
  /\ state.isInThinking

---------------------------------------------------------------------------
\* Everything the stream emitted, the parts enqueued at its end included
EmittedAtEnd == AllEmitted \o closed[1]

(* C29: when upstream ends or is aborted, whatever was processed before,   *)
(* the translator emits nothing further: no text-end, reasoning-end or     *)
(* finish part is fabricated, a channel open at that moment stays open in  *)
(* the emitted sequence, and the emitted sequence is the concatenation of  *)
(* the parts of the events processed so far.                                *)
C29_NothingEmittedAtEnd ==
  closed # None =>
    /\ closed[1] = <<>>
    /\ Positions(closed[1], {"text-end", "reasoning-end", "finish"}) = {}
    /\ EmittedAtEnd = Flatten(RunFrom(InitialState, events).output)
    /\ TextOpenAfter(AllEmitted) => TextOpenAfter(EmittedAtEnd)
    /\ ReasoningOpenAfter(AllEmitted) => ReasoningOpenAfter(EmittedAtEnd)

\* Upstream ended with both channels open and no finish part emitted
C29_Witness ==
  /\ closed # None
  /\ Len(events) = 2
  /\ state.isActiveText
  /\ state.isInThinking
  /\ TextOpenAfter(EmittedAtEnd)
  /\ ReasoningOpenAfter(EmittedAtEnd)
  /\ Positions(EmittedAtEnd, {"finish"}) = {}

---------------------------------------------------------------------------
ReasoningTypes == {"reasoning-start", "reasoning-delta", "reasoning-end"}

\* The reasoning ids generated for the stream that emitted `out`
ReasoningIdsOf(out) ==
  {Flatten(out)[k].id : k \in Positions(Flatten(out), {"reasoning-start"})}

\* The rank of a generated id among those of its stream: the id the stream
\* gets when it runs alone (0, the initial reasoningId, keeps rank 0)
Rank(id, ids) == Cardinality({x \in ids : x <= id})

\* A stream's parts and state with every generated id replaced by its rank
UpToIds(stream) ==
  LET ids == ReasoningIdsOf(stream.output)
  IN [output |-> [i \in 1..Len(stream.output) |->
                    [k \in 1..Len(stream.output[i]) |->
                       IF stream.output[i][k].type \in ReasoningTypes
                       THEN [stream.output[i][k] EXCEPT !.id = Rank(@, ids)]
                       ELSE stream.output[i][k]]],
      state |-> [stream.state EXCEPT !.reasoningId = Rank(@, ids),
                                     !.generated = 0]]

\* The stream that transforms `chunks` alone
Alone(chunks) == UpToIds(RunFrom(InitialState, chunks))

(* C30: two streams started by separate doStream calls on one model        *)
(* instance are independent: in every interleaving of their events, the    *)
(* parts and the final state of each stream equal, up to the generated     *)
(* reasoning ids, those of that stream run alone.                           *)
C30_ConcurrentStreamsIndependent ==
  /\ UpToIds([output |-> output, state |-> state]) = Alone(events)
  /\ UpToIds([output |-> other.output, state |-> other.state]) = Alone(other.events)

\* Both streams opened a reasoning block with an id of their own and
\* captured different conversation ids
C30_Witness ==
  /\ Len(events) = 2
  /\ Len(other.events) = 2
  /\ state.isInThinking
  /\ other.state.isInThinking
  /\ state.reasoningId # other.state.reasoningId
  /\ state.conversationId = Some("c1")
  /\ other.state.conversationId = Some("c2")
  /\ Positions(Flatten(other.output), {"finish"}) # {}
  /\ Positions(Flatten(output), {"finish"}) = {}

---------------------------------------------------------------------------
\* Chunk i is an answer fragment
IsFragment(i) ==
  /\ IsEvent(i, {"message", "agent_message"})
  /\ "answer" \in DOMAIN events[i].value

FragmentOf(i) == events[i].value.answer

\* Neither fragment holds a whole marker, and a marker lies across the
\* boundary between them
MarkerSplitAcross(f, g) ==
  /\ \A m \in {ThinkStart, ThinkEnd} : ~Includes(f, m) /\ ~Includes(g, m)
  /\ \E m \in {ThinkStart, ThinkEnd} : Includes(f \o g, m)

---------------------------------------------------------------------------
\* The parts emitted before the k-th part of the whole output
Before(k) == SubSeq(AllEmitted, 1, k - 1)

(* C32: in every output sequence each text-delta is emitted while the      *)
(* answer channel is open (a text-start precedes it with no text-end in    *)
(* between), no text-end is emitted while the channel is closed, and an    *)
(* answer fragment that yields text while the channel is closed, as after  *)
(* a message_end, emits a new text-start before its text-delta.            *)
C32_TextDeltaOnlyWhileOpen ==
  /\ \A k \in Positions(AllEmitted, {"text-delta", "text-end"}) :
       TextOpenAfter(Before(k))
  /\ \A i \in 1..Len(events) :
       (/\ ~TextOpenAfter(Emitted(i - 1))
        /\ Positions(output[i], {"text-delta"}) # {}) =>
         \E a \in Positions(output[i], {"text-start"}) :
           \A d \in Positions(output[i], {"text-delta"}) : a < d
  /\ state.isActiveText = TextOpenAfter(AllEmitted)

\* An answer fragment, a message_end that closed the channel, and a
\* fragment that re-opened it
C32_Witness ==
  /\ Len(events) = 3
  /\ IsFragment(1)
  /\ IsEvent(2, {"message_end"})
  /\ IsFragment(3)
  /\ output[1] = <<TextStart, TextDelta(FragmentOf(1))>>
  /\ output[2][1] = TextEnd
  /\ output[3] = <<TextStart, TextDelta(FragmentOf(3))>>

---------------------------------------------------------------------------
\* The reasoning-delta and text-delta strings of `parts`, concatenated in
\* emission order
DeltasOf(parts) ==
  LET ds == OfType(parts, {"reasoning-delta", "text-delta"})
  IN Flatten([k \in 1..Len(ds) |-> ds[k].delta])

\* Fragment f without the marker that is acted on: the first begin-marker
\* outside a reasoning block, the first end-marker inside one
WithoutActedOnMarker(f, inside) ==
  IF ~inside /\ Includes(f, ThinkStart)
  THEN BeforeMarker(f, ThinkStart) \o AfterMarker(f, ThinkStart)
  ELSE IF inside /\ Includes(f, ThinkEnd)
       THEN BeforeMarker(f, ThinkEnd) \o AfterMarker(f, ThinkEnd)
       ELSE f

(* C33: the splitter conserves content: for every answer fragment the      *)
(* reasoning-delta and text-delta strings emitted for it, concatenated in  *)
(* emission order, equal the fragment with the acted-on marker removed, so *)
(* that over a whole stream no non-marker character is dropped or          *)
(* duplicated, text preceding a begin-marker and text following a second   *)
(* end-marker in the same fragment included.                                *)
C33_SplitterConservesContent ==
  \A i \in 1..Len(events) :
    IsFragment(i) =>
      DeltasOf(output[i]) =
        WithoutActedOnMarker(FragmentOf(i), ReasoningOpenAfter(Emitted(i - 1)))

---------------------------------------------------------------------------
(* C34: no reasoning-delta or text-delta part carries the empty string,    *)
(* and an answer fragment that is the empty string opens no channel and    *)
(* emits no reasoning or answer part.                                       *)
C34_NoEmptyDelta ==
  /\ \A k \in Positions(AllEmitted, {"reasoning-delta", "text-delta"}) :
       TruthyText(AllEmitted[k].delta)
  /\ \A i \in 1..Len(events) :
       (IsFragment(i) /\ ~TruthyText(FragmentOf(i))) =>
         /\ OfType(output[i], ChannelTypes) = <<>>
         /\ TextOpenAfter(Emitted(i)) = TextOpenAfter(Emitted(i - 1))
         /\ ReasoningOpenAfter(Emitted(i)) = ReasoningOpenAfter(Emitted(i - 1))

====
